---------------------------- MODULE Spec2Model ----------------------------
(***************************************************************************)
(* GlavBot: a chat moderation bot (src/bot.py) over an SQLite store        *)
(* (src/database.py) with helpers (src/utils.py).                          *)
(*                                                                         *)
(* The model is a state machine whose actions are the bot's handlers.      *)
(* One handler runs at a time (single dispatch loop); a handler reads the  *)
(* clock `now`, which only the Tick action advances.  Every outbound       *)
(* platform call (delete, ban, restrict, send) may succeed or raise; the   *)
(* outcome is an input of the action.  Strings are sequences of            *)
(* one-character strings.                                                  *)
(***************************************************************************)
EXTENDS Integers, Sequences, FiniteSets, TLC

(***************************************************************************)
(* Bounds of the model.                                                    *)
(***************************************************************************)
MaxTime == 400
MaxWarnId == 3
MaxMessages == 3
MaxLen == 3
MaxSteps == 4
MaxWarnSteps == 6
MaxMemberSteps == 4
MaxAdminSteps == 2
MaxBanSteps == 3
MaxMessageSteps == 4
MaxIsolationSteps == 3

(***************************************************************************)
(* Program constants.                                                      *)
(***************************************************************************)
DEFAULT_WARN_LIMIT == 3
DEFAULT_ANTIFLOOD_COUNT == 5
DEFAULT_ANTIFLOOD_SECONDS == 10
FLOOD_CACHE_TTL == 60
FLOOD_MUTE_SECONDS == 300
DEFAULT_MUTE_SECONDS == 3600

Chats == {1}
Users == {1}
Keys == Chats \X Users

NoRow == [absent |-> TRUE]

(***************************************************************************)
(* Strings.                                                                *)
(***************************************************************************)
Digits == {"0", "1", "2", "3", "4", "5", "6", "7", "8", "9"}

DigitValue(ch) ==
    CASE ch = "0" -> 0 [] ch = "1" -> 1 [] ch = "2" -> 2 [] ch = "3" -> 3
      [] ch = "4" -> 4 [] ch = "5" -> 5 [] ch = "6" -> 6 [] ch = "7" -> 7
      [] ch = "8" -> 8 [] ch = "9" -> 9

\* str.lower() on one character of the model's alphabet
LowerChar(ch) ==
    CASE ch = "A" -> "a" [] ch = "B" -> "b" [] ch = "S" -> "s"
      [] ch = "M" -> "m" [] ch = "H" -> "h" [] ch = "D" -> "d"
      [] OTHER -> ch

\* str.lower()
Lower(s) == [i \in 1..Len(s) |-> LowerChar(s[i])]

\* Python's `w in t` on strings: w occurs in t as a contiguous substring
Contains(t, w) ==
    \E i \in 0..(Len(t) - Len(w)) : \A j \in 1..Len(w) : t[i + j] = w[j]

\* int() of a non-empty string of decimal digits
RECURSIVE IntOf(_)
IntOf(ds) ==
    IF Len(ds) = 0 THEN 0
    ELSE 10 * IntOf(SubSeq(ds, 1, Len(ds) - 1)) + DigitValue(ds[Len(ds)])


(***************************************************************************)
(* Optional values: Python's None is NoValue, a value v is Some(v).        *)
(***************************************************************************)
NoValue == <<>>
Some(v) == <<v>>
IsSome(o) == Len(o) = 1
Val(o) == o[1]

(***************************************************************************)
(* utils.py                                                                *)
(***************************************************************************)
UnitChars == {"s", "m", "h", "d"}

\* the `units` dictionary of parse_time
units(ch) ==
    CASE ch = "s" -> 1 [] ch = "m" -> 60 [] ch = "h" -> 3600 [] ch = "d" -> 86400

\* length of the longest prefix of s made of digits: what the greedy \d+ takes
RECURSIVE DigitPrefix(_)
DigitPrefix(s) ==
    IF Len(s) = 0 \/ s[1] \notin Digits THEN 0
    ELSE 1 + DigitPrefix(Tail(s))

\* re.match(r'(\d+)([smhd])', s): the pattern is anchored at the start of s
\* only; \d+ backtracks to a shorter run only onto a digit, never onto a unit
\* letter, so the match exists exactly when a unit letter follows the
\* longest digit prefix.  Whatever follows the unit letter is not looked at.
ReMatches(s) ==
    LET k == DigitPrefix(s)
    IN  k >= 1 /\ Len(s) >= k + 1 /\ s[k + 1] \in UnitChars

parse_time(time_str) ==
    IF Len(time_str) = 0 THEN NoValue
    ELSE LET s == Lower(time_str)
             k == DigitPrefix(s)
         IN  IF ReMatches(s)
             THEN Some(IntOf(SubSeq(s, 1, k)) * units(s[k + 1]))
             ELSE NoValue

\* telegram.ChatPermissions: a capability is "true", "false" or "unset"
Capabilities ==
    {"can_send_messages", "can_send_media_messages", "can_send_polls",
     "can_send_other_messages", "can_add_web_page_previews",
     "can_change_info", "can_invite_users", "can_pin_messages"}

ChatPermissions(can_send_messages) ==
    [cap \in Capabilities |->
        IF cap = "can_send_messages" THEN can_send_messages ELSE "unset"]

create_mute_permissions == [cap \in Capabilities |-> "false"]

create_default_permissions ==
    [cap \in Capabilities |->
        IF cap \in {"can_change_info", "can_pin_messages"} THEN "false" ELSE "true"]

(***************************************************************************)
(* State.                                                                  *)
(*   now            the clock read by datetime.now()                       *)
(*   chat_settings  table chat_settings: chat -> row, or NoRow             *)
(*   warnings       table warnings: a set of rows                          *)
(*   warn_seq       the AUTOINCREMENT counter of warnings.id               *)
(*   muted_users    table muted_users: (chat, user) -> mute_until          *)
(*   user_stats     table user_stats: (chat, user) -> row, or NoRow        *)
(*   flood_cache    bot.flood_cache: key -> [ts, set_at], or NoRow         *)
(*   banned         platform: the (chat, user) pairs banned from the chat  *)
(*   restricted     platform: (chat, user) -> the last restriction applied *)
(*   last           what the last handler did and answered                 *)
(*   steps          the number of events so far: updates and clock ticks   *)
(*   time_str, parsed   the argument and the result of parse_time          *)
(***************************************************************************)
VARIABLES now, chat_settings, warnings, warn_seq, muted_users, user_stats,
          flood_cache, banned, restricted, last, steps, time_str, parsed

vars == <<now, chat_settings, warnings, warn_seq, muted_users, user_stats,
          flood_cache, banned, restricted, last, steps, time_str, parsed>>

storeVars == <<chat_settings, warnings, warn_seq, muted_users, user_stats>>
platformVars == <<banned, restricted>>
parseVars == <<time_str, parsed>>

(***************************************************************************)
(* database.py                                                             *)
(***************************************************************************)
\* get_chat_settings inserts the default row with DEFAULT_WELCOME_MESSAGE and
\* DEFAULT_RULES, names database.py never imports: on a chat without a row the
\* INSERT statement is never reached and the call raises NameError.
get_chat_settings_raises(cs, c) == cs[c] = NoRow

get_bad_words(cs, c) == IF cs[c] = NoRow THEN <<>> ELSE cs[c].bad_words

\* UPDATE chat_settings SET <column> = ? WHERE chat_id = ?: without a row of
\* the chat the statement changes nothing
update_welcome(cs, c, message) ==
    IF cs[c] = NoRow THEN cs ELSE [cs EXCEPT ![c].welcome_message = message]

update_rules(cs, c, rules) ==
    IF cs[c] = NoRow THEN cs ELSE [cs EXCEPT ![c].rules = rules]

\* the list goes through json.dumps and comes back through json.loads in
\* get_bad_words: a list of strings is returned as it was stored
update_bad_words(cs, c, words_list) ==
    IF cs[c] = NoRow THEN cs ELSE [cs EXCEPT ![c].bad_words = words_list]

\* a plausible slip: WHERE user_id = ? without the chat_id
UserRows_by_user(w, c, u) == {r \in w : r.user_id = u}

\* WHERE chat_id = ? AND user_id = ?
UserRows(w, c, u) == {r \in w : r.chat_id = c /\ r.user_id = u}

get_warnings_count(w, c, u) == Cardinality(UserRows(w, c, u))

\* UNIQUE(chat_id, user_id, created_at): the INSERT raises IntegrityError
add_warning_raises(w, c, u, t) == \E r \in UserRows(w, c, u) : r.created_at = t

add_warning(w, seq, c, u, warned_by, reason, t) ==
    w \cup {[id |-> seq + 1, chat_id |-> c, user_id |-> u,
             warned_by |-> warned_by, reason |-> reason, created_at |-> t]}

\* a plausible slip: ORDER BY created_at ASC LIMIT 1
remove_warning_oldest(w, c, u) ==
    CHOOSE r \in UserRows(w, c, u) :
        \A s \in UserRows(w, c, u) : s.created_at >= r.created_at

\* the row of SELECT id ... ORDER BY created_at DESC LIMIT 1
remove_warning_target(w, c, u) ==
    CHOOSE r \in UserRows(w, c, u) :
        \A s \in UserRows(w, c, u) : s.created_at <= r.created_at

remove_warning(w, c, u) ==
    IF UserRows(w, c, u) = {} THEN w ELSE w \ {remove_warning_target(w, c, u)}

clear_warnings(w, c, u) == w \ UserRows(w, c, u)

\* a plausible slip: INSERT in place of INSERT OR REPLACE, into a table
\* without the primary key
add_mute_insert(m, c, u, duration_seconds, t) ==
    [m EXCEPT ![<<c, u>>] = Append(m[<<c, u>>], t + duration_seconds)]

add_mute(m, c, u, duration_seconds, t) ==
    [m EXCEPT ![<<c, u>>] = Some(t + duration_seconds)]

remove_mute(m, c, u) == [m EXCEPT ![<<c, u>>] = NoValue]

\* a plausible slip: mute_until >= datetime.now()
is_muted_inclusive(m, c, u, t) ==
    IsSome(m[<<c, u>>]) /\ Val(m[<<c, u>>]) >= t

\* the value is_muted returns
is_muted(m, c, u, t) ==
    IsSome(m[<<c, u>>]) /\ Val(m[<<c, u>>]) > t

\* the table is_muted leaves: an expired record is removed
is_muted_store(m, c, u, t) ==
    IF IsSome(m[<<c, u>>]) /\ ~is_muted(m, c, u, t)
    THEN remove_mute(m, c, u)
    ELSE m

\* the messages_count column of a row, 0 for the missing row
messages_count_of(row) ==
    IF row = NoRow THEN 0 ELSE row.messages_count

\* a plausible slip: INSERT OR REPLACE without the COALESCE on first_seen
update_user_stats_replace(st, c, u, t) ==
    [st EXCEPT ![<<c, u>>] =
        [messages_count |-> messages_count_of(st[<<c, u>>]) + 1,
         first_seen |-> t, last_seen |-> t]]

update_user_stats(st, c, u, t) ==
    [st EXCEPT ![<<c, u>>] =
        IF st[<<c, u>>] = NoRow
        THEN [messages_count |-> 1, first_seen |-> t, last_seen |-> t]
        ELSE [messages_count |-> st[<<c, u>>].messages_count + 1,
              first_seen |-> st[<<c, u>>].first_seen,
              last_seen |-> t]]

\* get_user_stats(...)['messages_count'], 0 without a row
messages_count(st, c, u) ==
    IF st[<<c, u>>] = NoRow THEN 0 ELSE st[<<c, u>>].messages_count

(***************************************************************************)
(* Inputs and the initial state.                                           *)
(***************************************************************************)
\* A chat_settings row can only come from the database file the bot is
\* started on (no handler can insert one, see get_chat_settings_raises, and
\* no handler changes warn_limit or the antiflood columns): the rows a chat
\* may have been provisioned with.
Word_ab == <<"a", "b">>
Word_b == <<"b">>

ProvisionedRows ==
    { [warn_limit |-> 2, antiflood_enabled |-> TRUE, antiflood_count |-> 2,
       antiflood_seconds |-> 10, bad_words |-> <<Word_ab, Word_b>>,
       welcome_message |-> "welcome", rules |-> "rules"],
      [warn_limit |-> 1, antiflood_enabled |-> TRUE, antiflood_count |-> 1,
       antiflood_seconds |-> 120, bad_words |-> <<Word_b>>,
       welcome_message |-> "welcome", rules |-> "rules"],
      [warn_limit |-> 3, antiflood_enabled |-> FALSE, antiflood_count |-> 1,
       antiflood_seconds |-> 10, bad_words |-> <<Word_b, Word_ab>>,
       welcome_message |-> "welcome", rules |-> "rules"] }

\* message texts: clean; "ab" twice, once in capitals; "b" before "ab"
Texts ==
    { <<"x">>,
      <<"A", "B", "x", "a", "b">>,
      <<"x", "B", "a", "b">> }

\* what chat.get_member answers for the issuer of a command ("raise": the
\* lookup fails)
MemberLookups == {"administrator", "creator", "member", "raise"}

\* context.args of /mute: none, "5m", "0s", "x"
MuteArgs == { <<>>, << <<"5", "m">> >>, << <<"0", "s">> >>, << <<"x">> >> }

TickSteps == {5, 90, 300}

NoResult ==
    [op |-> "none", chat |-> 0, user |-> 0, path |-> "none",
     count |-> 0, muted |-> FALSE, deleted |-> FALSE, word |-> <<>>]

Result(op, c, u, path) ==
    [NoResult EXCEPT !.op = op, !.chat = c, !.user = u, !.path = path]

Init ==
    /\ now = 0
    /\ chat_settings \in [Chats -> {NoRow} \cup ProvisionedRows]
    /\ warnings = {}
    /\ warn_seq = 0
    /\ muted_users = [k \in Keys |-> NoValue]
    /\ user_stats = [k \in Keys |-> NoRow]
    /\ flood_cache = [k \in Keys |-> NoRow]
    /\ banned = {}
    /\ restricted = [k \in Keys |-> NoRow]
    /\ last = NoResult
    /\ steps = 0
    /\ time_str = <<>>
    /\ parsed = NoValue

\* the clock advances between handlers
Tick ==
    /\ \E d \in TickSteps :
          /\ now + d <= MaxTime
          /\ now' = now + d
    /\ UNCHANGED <<last, storeVars, flood_cache, platformVars, parseVars>>

(***************************************************************************)
(* utils.is_admin                                                          *)
(***************************************************************************)
\* a plausible slip: `except: return True`
is_admin_lenient(lookup) == lookup \in {"administrator", "creator", "raise"}

is_admin(lookup) == lookup \in {"administrator", "creator"}

(***************************************************************************)
(* bot.py: the moderation commands.                                        *)
(***************************************************************************)
Refused(op, c) ==
    /\ last' = Result("command", c, 0, "refused")
    /\ UNCHANGED <<now, storeVars, flood_cache, platformVars, parseVars>>

ban_command(c, lookup, u, banOk) ==
    IF ~is_admin(lookup) THEN Refused("ban", c)
    ELSE IF u = 0 THEN
        /\ last' = Result("command", c, 0, "no_reply")
        /\ UNCHANGED <<now, storeVars, flood_cache, platformVars, parseVars>>
    ELSE
        /\ banned' = IF banOk THEN banned \cup {<<c, u>>} ELSE banned
        /\ last' = Result("ban", c, u, IF banOk THEN "banned" ELSE "error")
        /\ UNCHANGED <<now, storeVars, flood_cache, restricted, parseVars>>

\* target: "none" (no argument), "username" (@name), "garbage" (int() raises
\* ValueError inside the try) or "id"
unban_command(c, lookup, target, u, unbanOk) ==
    IF ~is_admin(lookup) THEN Refused("unban", c)
    ELSE IF target # "id" \/ ~unbanOk THEN
        /\ last' = Result("unban", c, 0,
                          CASE target = "none" -> "no_args"
                            [] target = "username" -> "unavailable"
                            [] OTHER -> "error")
        /\ UNCHANGED <<now, storeVars, flood_cache, platformVars, parseVars>>
    ELSE
        /\ banned' = banned \ {<<c, u>>}
        /\ last' = Result("unban", c, u, "unbanned")
        /\ UNCHANGED <<now, storeVars, flood_cache, restricted, parseVars>>

\* lines 109-114: None and 0 are both falsy
mute_duration(args) ==
    LET duration == IF Len(args) > 0 THEN parse_time(args[1]) ELSE NoValue
    IN  IF ~IsSome(duration) \/ Val(duration) = 0
        THEN DEFAULT_MUTE_SECONDS
        ELSE Val(duration)

mute_command(c, lookup, u, args, restrictOk) ==
    IF ~is_admin(lookup) THEN Refused("mute", c)
    ELSE IF u = 0 THEN
        /\ last' = Result("command", c, 0, "no_reply")
        /\ UNCHANGED <<now, storeVars, flood_cache, platformVars, parseVars>>
    ELSE IF ~restrictOk THEN
        /\ last' = Result("mute", c, u, "error")
        /\ UNCHANGED <<now, storeVars, flood_cache, platformVars, parseVars>>
    ELSE
        /\ restricted' = [restricted EXCEPT ![<<c, u>>] =
                [permissions |-> create_mute_permissions,
                 until_date |-> Some(now + mute_duration(args))]]
        /\ muted_users' = add_mute(muted_users, c, u, mute_duration(args), now)
        /\ last' = Result("mute", c, u, "muted")
        /\ UNCHANGED <<now, chat_settings, warnings, warn_seq, user_stats,
                       flood_cache, banned, parseVars>>

\* a plausible slip: /unmute lifts the restriction with unban_member
unmute_command_unbans(c, lookup, u, restrictOk) ==
    IF ~is_admin(lookup) THEN Refused("unmute", c)
    ELSE IF u = 0 THEN
        /\ last' = Result("command", c, 0, "no_reply")
        /\ UNCHANGED <<now, storeVars, flood_cache, platformVars, parseVars>>
    ELSE IF ~restrictOk THEN
        /\ last' = Result("unmute", c, u, "error")
        /\ UNCHANGED <<now, storeVars, flood_cache, platformVars, parseVars>>
    ELSE
        /\ restricted' = [restricted EXCEPT ![<<c, u>>] = NoRow]
        /\ banned' = banned \ {<<c, u>>}
        /\ muted_users' = remove_mute(muted_users, c, u)
        /\ last' = Result("unmute", c, u, "unmuted")
        /\ UNCHANGED <<now, chat_settings, warnings, warn_seq, user_stats,
                       flood_cache, parseVars>>

\* a plausible slip: /unmute also wipes the warnings of the user
unmute_command_clears(c, lookup, u, restrictOk) ==
    IF ~is_admin(lookup) THEN Refused("unmute", c)
    ELSE IF u = 0 THEN
        /\ last' = Result("command", c, 0, "no_reply")
        /\ UNCHANGED <<now, storeVars, flood_cache, platformVars, parseVars>>
    ELSE IF ~restrictOk THEN
        /\ last' = Result("unmute", c, u, "error")
        /\ UNCHANGED <<now, storeVars, flood_cache, platformVars, parseVars>>
    ELSE
        /\ restricted' = [restricted EXCEPT ![<<c, u>>] =
                [permissions |-> ChatPermissions("true"),
                 until_date |-> NoValue]]
        /\ muted_users' = remove_mute(muted_users, c, u)
        /\ warnings' = clear_warnings(warnings, c, u)
        /\ last' = Result("unmute", c, u, "unmuted")
        /\ UNCHANGED <<now, chat_settings, warn_seq, user_stats,
                       flood_cache, banned, parseVars>>

unmute_command(c, lookup, u, restrictOk) ==
    IF ~is_admin(lookup) THEN Refused("unmute", c)
    ELSE IF u = 0 THEN
        /\ last' = Result("command", c, 0, "no_reply")
        /\ UNCHANGED <<now, storeVars, flood_cache, platformVars, parseVars>>
    ELSE IF ~restrictOk THEN
        /\ last' = Result("unmute", c, u, "error")
        /\ UNCHANGED <<now, storeVars, flood_cache, platformVars, parseVars>>
    ELSE
        /\ restricted' = [restricted EXCEPT ![<<c, u>>] =
                [permissions |-> ChatPermissions("true"),
                 until_date |-> NoValue]]
        /\ muted_users' = remove_mute(muted_users, c, u)
        /\ last' = Result("unmute", c, u, "unmuted")
        /\ UNCHANGED <<now, chat_settings, warnings, warn_seq, user_stats,
                       flood_cache, banned, parseVars>>

\* "Без причины", the reason of a /warn without arguments
NoReasonGiven == <<"-">>

\* the prefix of f"Мат: {word}"
ProfanityPrefix == <<"M", "a", "t", ":", " ">>

AdminId == "admin"
BotId == "bot"

warn_limit_reached(warn_count, warn_limit) == warn_count >= warn_limit

warn_command(c, lookup, u, banOk) ==
    IF ~is_admin(lookup) THEN Refused("warn", c)
    ELSE IF u = 0 THEN
        /\ last' = Result("command", c, 0, "no_reply")
        /\ UNCHANGED <<now, storeVars, flood_cache, platformVars, parseVars>>
    ELSE IF add_warning_raises(warnings, c, u, now) THEN
        \* IntegrityError leaves the handler: nothing was inserted
        /\ last' = Result("warn", c, u, "integrity_error")
        /\ UNCHANGED <<now, storeVars, flood_cache, platformVars, parseVars>>
    ELSE
        LET w1 == add_warning(warnings, warn_seq, c, u, AdminId, NoReasonGiven, now)
            warn_count == get_warnings_count(w1, c, u)
        IN  /\ warn_seq < MaxWarnId
            /\ warn_seq' = warn_seq + 1
            /\ IF get_chat_settings_raises(chat_settings, c) THEN
                   \* NameError leaves the handler after the row was committed
                   /\ warnings' = w1
                   /\ banned' = banned
                   /\ last' = [Result("warn", c, u, "name_error")
                                  EXCEPT !.count = warn_count]
               ELSE IF warn_limit_reached(warn_count, chat_settings[c].warn_limit) THEN
                   /\ warnings' = IF banOk THEN clear_warnings(w1, c, u) ELSE w1
                   /\ banned' = IF banOk THEN banned \cup {<<c, u>>} ELSE banned
                   /\ last' = [Result("warn", c, u,
                                      IF banOk THEN "banned" ELSE "ban_error")
                                  EXCEPT !.count = warn_count]
               ELSE
                   /\ warnings' = w1
                   /\ banned' = banned
                   /\ last' = [Result("warn", c, u, "warned")
                                  EXCEPT !.count = warn_count]
            /\ UNCHANGED <<now, chat_settings, muted_users, user_stats,
                           flood_cache, restricted, parseVars>>

unwarn_command(c, lookup, u) ==
    IF ~is_admin(lookup) THEN Refused("unwarn", c)
    ELSE IF u = 0 THEN
        /\ last' = Result("command", c, 0, "no_reply")
        /\ UNCHANGED <<now, storeVars, flood_cache, platformVars, parseVars>>
    ELSE
        /\ warnings' = remove_warning(warnings, c, u)
        /\ last' = [Result("unwarn", c, u, "unwarned")
                       EXCEPT !.count = get_warnings_count(warnings', c, u)]
        /\ UNCHANGED <<now, chat_settings, warn_seq, muted_users, user_stats,
                       flood_cache, platformVars, parseVars>>

\* /info of user u (the replied-to user or the caller): lines 383-385 read the
\* statistics, the warning count and is_muted
info_command(c, u) ==
    /\ muted_users' = is_muted_store(muted_users, c, u, now)
    /\ last' = [Result("info", c, u, "info")
                   EXCEPT !.count = get_warnings_count(warnings, c, u),
                          !.muted = is_muted(muted_users, c, u, now)]
    /\ UNCHANGED <<now, chat_settings, warnings, warn_seq, user_stats,
                   flood_cache, platformVars, parseVars>>

(***************************************************************************)
(* bot.py: /clear, /pin, /slowmode and the settings commands.  The         *)
(* messages of a chat, its pinned message and its slow mode are not part   *)
(* of the state: of /clear, /pin and /slowmode only the answer is kept.    *)
(***************************************************************************)
\* arg: "none", "number" or "garbage" (int() raises ValueError)
clear_command(c, lookup, arg, replied, sendOk) ==
    IF ~is_admin(lookup) THEN Refused("clear", c)
    ELSE /\ last' = Result("clear", c, 0,
                           IF arg = "garbage" THEN "bad_number"
                           ELSE IF ~replied THEN "no_reply"
                           ELSE IF sendOk THEN "cleared" ELSE "error")
         /\ UNCHANGED <<now, storeVars, flood_cache, platformVars, parseVars>>

pin_command(c, lookup, replied, pinOk) ==
    IF ~is_admin(lookup) THEN Refused("pin", c)
    ELSE /\ last' = Result("pin", c, 0,
                           IF ~replied THEN "no_reply"
                           ELSE IF pinOk THEN "pinned" ELSE "error")
         /\ UNCHANGED <<now, storeVars, flood_cache, platformVars, parseVars>>

slowmode_command(c, lookup, arg, setOk) ==
    IF ~is_admin(lookup) THEN Refused("slowmode", c)
    ELSE /\ last' = Result("slowmode", c, 0,
                           IF arg = "garbage" THEN "bad_number"
                           ELSE IF setOk THEN "set" ELSE "error")
         /\ UNCHANGED <<now, storeVars, flood_cache, platformVars, parseVars>>

\* args: the words after the command.  The answer is sent after the store
\* was updated, outside any try: when it is rejected the handler is left by
\* the exception (path "raised").
set_welcome_command(c, lookup, args, sendOk) ==
    IF ~is_admin(lookup) THEN Refused("set_welcome", c)
    ELSE IF Len(args) = 0 THEN
        /\ last' = Result("set_welcome", c, 0, "no_args")
        /\ UNCHANGED <<now, storeVars, flood_cache, platformVars, parseVars>>
    ELSE
        /\ chat_settings' = update_welcome(chat_settings, c, args[1])
        /\ last' = Result("set_welcome", c, 0, IF sendOk THEN "updated" ELSE "raised")
        /\ UNCHANGED <<now, warnings, warn_seq, muted_users, user_stats,
                       flood_cache, platformVars, parseVars>>

set_rules_command(c, lookup, args, sendOk) ==
    IF ~is_admin(lookup) THEN Refused("set_rules", c)
    ELSE IF Len(args) = 0 THEN
        /\ last' = Result("set_rules", c, 0, "no_args")
        /\ UNCHANGED <<now, storeVars, flood_cache, platformVars, parseVars>>
    ELSE
        /\ chat_settings' = update_rules(chat_settings, c, args[1])
        /\ last' = Result("set_rules", c, 0, IF sendOk THEN "updated" ELSE "raised")
        /\ UNCHANGED <<now, warnings, warn_seq, muted_users, user_stats,
                       flood_cache, platformVars, parseVars>>

\* `word in bad_words`
InList(word, list) == \E i \in 1..Len(list) : list[i] = word

\* list.remove(word): the list without the first occurrence of word
RECURSIVE ListRemove(_, _)
ListRemove(list, word) ==
    IF Len(list) = 0 THEN <<>>
    ELSE IF Head(list) = word THEN Tail(list)
    ELSE <<Head(list)>> \o ListRemove(Tail(list), word)

add_badword_command(c, lookup, args, sendOk) ==
    IF ~is_admin(lookup) THEN Refused("add_badword", c)
    ELSE IF Len(args) = 0 THEN
        /\ last' = Result("add_badword", c, 0, "no_args")
        /\ UNCHANGED <<now, storeVars, flood_cache, platformVars, parseVars>>
    ELSE
        LET word == Lower(args[1])
            bad_words == get_bad_words(chat_settings, c)
            isNew == ~InList(word, bad_words)
        IN  /\ chat_settings' =
                  IF isNew
                  THEN update_bad_words(chat_settings, c, Append(bad_words, word))
                  ELSE chat_settings
            /\ last' = [Result("add_badword", c, 0,
                               IF ~sendOk THEN "raised"
                               ELSE IF isNew THEN "added" ELSE "already")
                           EXCEPT !.word = word]
            /\ UNCHANGED <<now, warnings, warn_seq, muted_users, user_stats,
                           flood_cache, platformVars, parseVars>>

remove_badword_command(c, lookup, args, sendOk) ==
    IF ~is_admin(lookup) THEN Refused("remove_badword", c)
    ELSE IF Len(args) = 0 THEN
        /\ last' = Result("remove_badword", c, 0, "no_args")
        /\ UNCHANGED <<now, storeVars, flood_cache, platformVars, parseVars>>
    ELSE
        LET word == Lower(args[1])
            bad_words == get_bad_words(chat_settings, c)
            found == InList(word, bad_words)
        IN  /\ chat_settings' =
                  IF found
                  THEN update_bad_words(chat_settings, c, ListRemove(bad_words, word))
                  ELSE chat_settings
            /\ last' = [Result("remove_badword", c, 0,
                               IF ~sendOk THEN "raised"
                               ELSE IF found THEN "removed" ELSE "not_found")
                           EXCEPT !.word = word]
            /\ UNCHANGED <<now, warnings, warn_seq, muted_users, user_stats,
                           flood_cache, platformVars, parseVars>>

(***************************************************************************)
(* bot.py: handle_messages.                                                *)
(***************************************************************************)
\* the comprehension of lines 572-575: keep t with current_time - t <= seconds
RECURSIVE Recent(_, _, _)
Recent(ts, current_time, seconds) ==
    IF Len(ts) = 0 THEN <<>>
    ELSE IF current_time - Head(ts) <= seconds
         THEN <<Head(ts)>> \o Recent(Tail(ts), current_time, seconds)
         ELSE Recent(Tail(ts), current_time, seconds)

\* `cache_key in flood_cache`: a TTLCache entry is gone ttl seconds after it
\* was last set (cachetools 5: present while timer() < expires).  With at
\* most Cardinality(Keys) keys the maxsize of 10000 is never reached.
cache_live(fc, key, t) ==
    fc[key] # NoRow /\ t - fc[key].set_at < FLOOD_CACHE_TTL

\* lines 564-575: the list stored back under cache_key
flood_window(fc, key, t, seconds) ==
    Recent(Append(IF cache_live(fc, key, t) THEN fc[key].ts ELSE <<>>, t),
           t, seconds)

\* line 578
is_flood(ts, antiflood_count) == Len(ts) > antiflood_count

\* lines 604-605: the index of the first word of the list, in list order, that
\* occurs in the lower-cased text; 0 when there is none
RECURSIVE first_bad_word_from(_, _, _)
first_bad_word_from(bad_words, text_lower, i) ==
    IF i > Len(bad_words) THEN 0
    ELSE IF Contains(text_lower, Lower(bad_words[i])) THEN i
    ELSE first_bad_word_from(bad_words, text_lower, i + 1)

first_bad_word(bad_words, text) == first_bad_word_from(bad_words, Lower(text), 1)

FloodPaths ==
    {"flood_delete_failed", "flood_restrict_failed", "flood_muted",
     "flood_notice_failed"}

WordPaths ==
    {"word_delete_failed", "word_insert_failed", "word_warned",
     "word_notice_failed", "word_banned", "word_ban_failed"}

\* a plausible slip: update_user_stats called before the is_muted test
message_stats_always(wasMuted, st, c, u, t) == update_user_stats(st, c, u, t)

\* lines 546-555: the statistics are updated only for a sender who is not
\* muted
message_stats(wasMuted, st, c, u, t) ==
    IF wasMuted THEN st ELSE update_user_stats(st, c, u, t)

\* the settings section 3 of the specification gives a chat: its row, or the
\* defaults where it has none
EffectiveSeconds(c) ==
    IF chat_settings[c] = NoRow THEN DEFAULT_ANTIFLOOD_SECONDS
    ELSE chat_settings[c].antiflood_seconds

EffectiveCount(c) ==
    IF chat_settings[c] = NoRow THEN DEFAULT_ANTIFLOOD_COUNT
    ELSE chat_settings[c].antiflood_count

EffectiveEnabled(c) ==
    IF chat_settings[c] = NoRow THEN TRUE ELSE chat_settings[c].antiflood_enabled

EffectiveWarnLimit(c) ==
    IF chat_settings[c] = NoRow THEN DEFAULT_WARN_LIMIT
    ELSE chat_settings[c].warn_limit

\* a plausible slip: the flood check runs whatever the flag says
antiflood_always(settings) == TRUE

\* line 561: settings.get('antiflood_enabled', True) of a stored row
antiflood_on(settings) == settings.antiflood_enabled

\* a plausible slip: the flood branch registers a warning as the word filter
\* does
flood_action_warns(c, u, m1, delOk, restrictOk, sendOk) ==
    /\ muted_users' = IF delOk /\ restrictOk
                      THEN add_mute(m1, c, u, FLOOD_MUTE_SECONDS, now)
                      ELSE m1
    /\ restricted' = IF delOk /\ restrictOk
                     THEN [restricted EXCEPT ![<<c, u>>] =
                             [permissions |-> ChatPermissions("false"),
                              until_date |-> Some(now + FLOOD_MUTE_SECONDS)]]
                     ELSE restricted
    /\ last' = [Result("message", c, u,
                       IF ~delOk THEN "flood_delete_failed"
                       ELSE IF ~restrictOk THEN "flood_restrict_failed"
                       ELSE IF ~sendOk THEN "flood_notice_failed"
                       ELSE "flood_muted")
                   EXCEPT !.deleted = delOk]
    /\ warnings' = add_warning(warnings, warn_seq, c, u, BotId,
                               ProfanityPrefix, now)
    /\ warn_seq' = warn_seq + 1
    /\ UNCHANGED banned

\* lines 579-598: the flood action
flood_action(c, u, m1, delOk, restrictOk, sendOk) ==
    /\ muted_users' = IF delOk /\ restrictOk
                      THEN add_mute(m1, c, u, FLOOD_MUTE_SECONDS, now)
                      ELSE m1
    /\ restricted' = IF delOk /\ restrictOk
                     THEN [restricted EXCEPT ![<<c, u>>] =
                             [permissions |-> ChatPermissions("false"),
                              until_date |-> Some(now + FLOOD_MUTE_SECONDS)]]
                     ELSE restricted
    /\ last' = [Result("message", c, u,
                       IF ~delOk THEN "flood_delete_failed"
                       ELSE IF ~restrictOk THEN "flood_restrict_failed"
                       ELSE IF ~sendOk THEN "flood_notice_failed"
                       ELSE "flood_muted")
                   EXCEPT !.deleted = delOk]
    /\ UNCHANGED <<warnings, warn_seq, banned>>

\* lines 604-627: the banned word bad_words[i] was found in the text
word_action(c, u, word, delOk, sendOk, banOk) ==
    LET w1 == add_warning(warnings, warn_seq, c, u, BotId,
                          ProfanityPrefix \o word, now)
        warn_count == get_warnings_count(w1, c, u)
        inserted == delOk /\ ~add_warning_raises(warnings, c, u, now)
        limit == inserted /\ sendOk
                 /\ warn_limit_reached(warn_count, chat_settings[c].warn_limit)
    IN  /\ IF inserted THEN warn_seq < MaxWarnId ELSE TRUE
        /\ warnings' = IF inserted THEN w1 ELSE warnings
        /\ warn_seq' = IF inserted THEN warn_seq + 1 ELSE warn_seq
        /\ banned' = IF limit /\ banOk THEN banned \cup {<<c, u>>} ELSE banned
        /\ last' = [Result("message", c, u,
                           IF ~delOk THEN "word_delete_failed"
                           ELSE IF ~inserted THEN "word_insert_failed"
                           ELSE IF ~sendOk THEN "word_notice_failed"
                           ELSE IF ~limit THEN "word_warned"
                           ELSE IF banOk THEN "word_banned"
                           ELSE "word_ban_failed")
                       EXCEPT !.deleted = delOk,
                              !.count = IF inserted THEN warn_count ELSE 0,
                              !.word = word]
        /\ UNCHANGED restricted

handle_messages(c, u, text, delOk, restrictOk, sendOk, banOk) ==
    LET key == <<c, u>>
        wasMuted == is_muted(muted_users, c, u, now)
        m1 == is_muted_store(muted_users, c, u, now)
    IN
    /\ UNCHANGED <<now, chat_settings, parseVars>>
    /\ user_stats' = message_stats(wasMuted, user_stats, c, u, now)
    /\ messages_count(user_stats', c, u) <= MaxMessages
    /\ IF wasMuted THEN
           \* lines 547-552: delete the message and return
           /\ last' = [Result("message", c, u, "muted")
                          EXCEPT !.deleted = delOk, !.muted = TRUE]
           /\ UNCHANGED <<warnings, warn_seq, muted_users, flood_cache,
                          platformVars>>
       ELSE
           /\ IF get_chat_settings_raises(chat_settings, c) THEN
                  \* line 558: NameError leaves the handler
                  /\ muted_users' = m1
                  /\ last' = Result("message", c, u, "name_error")
                  /\ UNCHANGED <<warnings, warn_seq, flood_cache, platformVars>>
              ELSE
                  LET settings == chat_settings[c]
                      window == flood_window(flood_cache, key, now,
                                             settings.antiflood_seconds)
                      bad_words == get_bad_words(chat_settings, c)
                      i == first_bad_word(bad_words, text)
                  IN  /\ flood_cache' =
                            IF antiflood_on(settings)
                            THEN [flood_cache EXCEPT ![key] =
                                     [ts |-> window, set_at |-> now]]
                            ELSE flood_cache
                      /\ IF antiflood_on(settings)
                            /\ is_flood(window, settings.antiflood_count)
                         THEN flood_action(c, u, m1, delOk, restrictOk, sendOk)
                         ELSE IF i # 0
                         THEN /\ word_action(c, u, bad_words[i], delOk, sendOk, banOk)
                              /\ muted_users' = m1
                         ELSE /\ muted_users' = m1
                              /\ last' = Result("message", c, u, "clean")
                              /\ UNCHANGED <<warnings, warn_seq, platformVars>>

(***************************************************************************)
(* bot.py: handle_new_members and button_callback.                         *)
(***************************************************************************)
\* the kinds of account in update.message.new_chat_members
MemberKinds == {"bot", "user"}

\* handle_new_members, lines 482-529.  Line 485 reads the settings.  For a
\* member that is not a bot, line 496 evaluates the name
\* DEFAULT_WELCOME_MESSAGE, which bot.py never imports (line 14), so NameError
\* leaves the handler before the captcha is stored (line 509), before the
\* welcome is sent and before restrict_member is called: the handler changes
\* nothing.
handle_new_members(c, members) ==
    /\ last' = Result("join", c, 0,
                      IF get_chat_settings_raises(chat_settings, c)
                      THEN "name_error"
                      ELSE IF "user" \in members THEN "raised"
                      ELSE "skipped")
    /\ UNCHANGED <<now, storeVars, flood_cache, platformVars, parseVars>>

\* `'captcha' in context.user_data`: its only writer is line 509, which is
\* never reached (see handle_new_members)
captcha_stored == FALSE

ButtonData ==
    {"accept_rules", "solve_captcha", "menu_rules", "menu_info", "menu_help",
     "menu_report"}

\* button_callback, lines 631-693: query.answer(), then the branch of
\* query.data.  No platform call is inside a try: a rejected call leaves the
\* handler as an exception (path "raised"), after whatever was done before it.
button_callback(c, u, data, answerOk, editOk, restrictOk) ==
    LET wasMuted == is_muted(muted_users, c, u, now)
        m1 == is_muted_store(muted_users, c, u, now)
        lifts == answerOk /\ editOk /\ data = "accept_rules" /\ wasMuted
    IN  /\ muted_users' =
              IF answerOk /\ editOk /\ data = "accept_rules"
              THEN (IF wasMuted THEN remove_mute(m1, c, u) ELSE m1)
              ELSE muted_users
        /\ restricted' =
              IF lifts /\ restrictOk
              THEN [restricted EXCEPT ![<<c, u>>] =
                       [permissions |-> ChatPermissions("true"),
                        until_date |-> NoValue]]
              ELSE restricted
        /\ last' = [Result("button", c, u,
                           IF ~answerOk THEN "raised"
                           ELSE IF data = "menu_rules"
                                   /\ get_chat_settings_raises(chat_settings, c)
                                THEN "name_error"
                           ELSE IF ~editOk THEN "raised"
                           ELSE IF data = "solve_captcha" /\ ~captcha_stored
                                THEN "captcha_not_found"
                           ELSE IF lifts /\ ~restrictOk THEN "raised"
                           ELSE IF lifts THEN "mute_lifted"
                           ELSE "answered")
                       EXCEPT !.muted = lifts]
        /\ UNCHANGED <<now, chat_settings, warnings, warn_seq, user_stats,
                       flood_cache, banned, parseVars>>

(***************************************************************************)
(* The bot: one handler at a time, on inputs the platform delivers.        *)
(***************************************************************************)
\* 0 stands for a command that replies to no message
ReplyTargets == Users \cup {0}

BanCommand ==
    \E c \in Chats, lookup \in MemberLookups, u \in ReplyTargets, banOk \in BOOLEAN :
        ban_command(c, lookup, u, banOk)

UnbanCommand ==
    \E c \in Chats, lookup \in MemberLookups,
       target \in {"none", "username", "garbage", "id"}, u \in Users,
       unbanOk \in BOOLEAN :
        unban_command(c, lookup, target, u, unbanOk)

MuteCommand ==
    \E c \in Chats, lookup \in MemberLookups, u \in ReplyTargets,
       args \in MuteArgs, restrictOk \in BOOLEAN :
        mute_command(c, lookup, u, args, restrictOk)

UnmuteCommand ==
    \E c \in Chats, lookup \in MemberLookups, u \in ReplyTargets,
       restrictOk \in BOOLEAN :
        unmute_command(c, lookup, u, restrictOk)

WarnCommand ==
    \E c \in Chats, lookup \in MemberLookups, u \in ReplyTargets, banOk \in BOOLEAN :
        warn_command(c, lookup, u, banOk)

UnwarnCommand ==
    \E c \in Chats, lookup \in MemberLookups, u \in ReplyTargets :
        unwarn_command(c, lookup, u)

InfoCommand ==
    \E c \in Chats, u \in Users : info_command(c, u)

HandleMessage ==
    \E c \in Chats, u \in Users, text \in Texts,
       delOk \in BOOLEAN, restrictOk \in BOOLEAN, sendOk \in BOOLEAN,
       banOk \in BOOLEAN :
        handle_messages(c, u, text, delOk, restrictOk, sendOk, banOk)

\* one more event: an update handed to its handler, or the clock advancing
Dispatch ==
    /\ steps < MaxSteps
    /\ steps' = steps + 1

Next ==
    \/ Dispatch /\ Tick
    \/ Dispatch /\ BanCommand
    \/ Dispatch /\ UnbanCommand
    \/ Dispatch /\ MuteCommand
    \/ Dispatch /\ UnmuteCommand
    \/ Dispatch /\ WarnCommand
    \/ Dispatch /\ UnwarnCommand
    \/ Dispatch /\ InfoCommand
    \/ Dispatch /\ HandleMessage

Spec == Init /\ [][Next]_vars

(***************************************************************************)
(* The warning commands on their own (/warn and /unwarn, the clock         *)
(* advancing between them), followed for MaxWarnSteps events.              *)
(***************************************************************************)
DispatchWarn ==
    /\ steps < MaxWarnSteps
    /\ steps' = steps + 1

NextWarn ==
    \/ DispatchWarn /\ Tick
    \/ DispatchWarn /\ WarnCommand
    \/ DispatchWarn /\ UnwarnCommand

SpecWarn == Init /\ [][NextWarn]_vars

(***************************************************************************)
(* The members of a chat: their messages, joins and button presses, and    *)
(* the administrators' /mute, /unmute and /info, followed for              *)
(* MaxMemberSteps events.                                                  *)
(***************************************************************************)
JoinEvent ==
    \E c \in Chats, members \in (SUBSET MemberKinds) \ {{}} :
        handle_new_members(c, members)

ButtonCallback ==
    \E c \in Chats, u \in Users, data \in ButtonData,
       answerOk \in BOOLEAN, editOk \in BOOLEAN, restrictOk \in BOOLEAN :
        button_callback(c, u, data, answerOk, editOk, restrictOk)

DispatchMember ==
    /\ steps < MaxMemberSteps
    /\ steps' = steps + 1

NextMembers ==
    \/ DispatchMember /\ Tick
    \/ DispatchMember /\ MuteCommand
    \/ DispatchMember /\ UnmuteCommand
    \/ DispatchMember /\ InfoCommand
    \/ DispatchMember /\ HandleMessage
    \/ DispatchMember /\ JoinEvent
    \/ DispatchMember /\ ButtonCallback

SpecMembers == Init /\ [][NextMembers]_vars

(***************************************************************************)
(* The bans and everything that may follow one: the moderation commands,   *)
(* messages and button presses, followed for MaxBanSteps events.           *)
(***************************************************************************)
DispatchBan ==
    /\ steps < MaxBanSteps
    /\ steps' = steps + 1

NextBan ==
    \/ DispatchBan /\ Tick
    \/ DispatchBan /\ BanCommand
    \/ DispatchBan /\ UnbanCommand
    \/ DispatchBan /\ MuteCommand
    \/ DispatchBan /\ UnmuteCommand
    \/ DispatchBan /\ WarnCommand
    \/ DispatchBan /\ UnwarnCommand
    \/ DispatchBan /\ HandleMessage
    \/ DispatchBan /\ ButtonCallback

SpecBan == Init /\ [][NextBan]_vars

(***************************************************************************)
(* The message pipeline on its own: text messages, the clock advancing     *)
(* between them and /mute, followed for MaxMessageSteps events.            *)
(***************************************************************************)
DispatchMessage ==
    /\ steps < MaxMessageSteps
    /\ steps' = steps + 1

NextMessages ==
    \/ DispatchMessage /\ Tick
    \/ DispatchMessage /\ MuteCommand
    \/ DispatchMessage /\ HandleMessage

SpecMessages == Init /\ [][NextMessages]_vars

(***************************************************************************)
(* Two chats with two users each: the events that concern one (chat, user) *)
(* (a message, /warn, /unwarn, /mute, /unmute, /ban) and the clock,        *)
(* followed for MaxIsolationSteps events.  Both chats have the same        *)
(* settings row, or none.                                                  *)
(***************************************************************************)
IsolationChats == {1, 2}
\* user 1 in both chats and a second user in chat 1
IsolationKeys == {<<1, 1>>, <<1, 2>>, <<2, 1>>}

\* the provisioned row under which the second message of a window is a flood
IsolationRows ==
    {row \in ProvisionedRows :
        row.antiflood_enabled /\ row.antiflood_count = 1}

InitIsolation ==
    /\ now = 0
    /\ \E row \in {NoRow} \cup IsolationRows :
          chat_settings = [c \in IsolationChats |-> row]
    /\ warnings = {}
    /\ warn_seq = 0
    /\ muted_users = [k \in IsolationKeys |-> NoValue]
    /\ user_stats = [k \in IsolationKeys |-> NoRow]
    /\ flood_cache = [k \in IsolationKeys |-> NoRow]
    /\ banned = {}
    /\ restricted = [k \in IsolationKeys |-> NoRow]
    /\ last = NoResult
    /\ steps = 0
    /\ time_str = <<>>
    /\ parsed = NoValue

DispatchIsolation ==
    /\ steps < MaxIsolationSteps
    /\ steps' = steps + 1

\* the platform accepts every call of a handler, or rejects every call
IsolationMessage ==
    \E k \in IsolationKeys, text \in Texts, ok \in BOOLEAN :
        handle_messages(k[1], k[2], text, ok, ok, ok, ok)

IsolationWarn ==
    \E k \in IsolationKeys, lookup \in MemberLookups, banOk \in BOOLEAN :
        warn_command(k[1], lookup, k[2], banOk)

IsolationUnwarn ==
    \E k \in IsolationKeys, lookup \in MemberLookups :
        unwarn_command(k[1], lookup, k[2])

IsolationMute ==
    \E k \in IsolationKeys, lookup \in MemberLookups, args \in MuteArgs,
       restrictOk \in BOOLEAN :
        mute_command(k[1], lookup, k[2], args, restrictOk)

IsolationUnmute ==
    \E k \in IsolationKeys, lookup \in MemberLookups, restrictOk \in BOOLEAN :
        unmute_command(k[1], lookup, k[2], restrictOk)

IsolationBan ==
    \E k \in IsolationKeys, lookup \in MemberLookups, banOk \in BOOLEAN :
        ban_command(k[1], lookup, k[2], banOk)

NextIsolation ==
    \/ DispatchIsolation /\ Tick
    \/ DispatchIsolation /\ IsolationMessage
    \/ DispatchIsolation /\ IsolationWarn
    \/ DispatchIsolation /\ IsolationUnwarn
    \/ DispatchIsolation /\ IsolationMute
    \/ DispatchIsolation /\ IsolationUnmute
    \/ DispatchIsolation /\ IsolationBan

SpecIsolation == InitIsolation /\ [][NextIsolation]_vars

(***************************************************************************)
(* The administrators' commands on their own: the thirteen commands that   *)
(* start with the is_admin test, followed for MaxAdminSteps events.        *)
(***************************************************************************)
NumberArgs == {"none", "number", "garbage"}

\* context.args of the text commands: none, or one text
TextArgs == { <<>>, <<"text">> }

\* context.args of /add_badword and /remove_badword: none, "B" or "x"
WordArgs == { <<>>, << <<"B">> >>, << <<"x">> >> }

ClearCommand ==
    \E c \in Chats, lookup \in MemberLookups, arg \in NumberArgs,
       replied \in BOOLEAN, sendOk \in BOOLEAN :
        clear_command(c, lookup, arg, replied, sendOk)

PinCommand ==
    \E c \in Chats, lookup \in MemberLookups, replied \in BOOLEAN,
       pinOk \in BOOLEAN :
        pin_command(c, lookup, replied, pinOk)

SlowmodeCommand ==
    \E c \in Chats, lookup \in MemberLookups, arg \in NumberArgs,
       setOk \in BOOLEAN :
        slowmode_command(c, lookup, arg, setOk)

SetWelcomeCommand ==
    \E c \in Chats, lookup \in MemberLookups, args \in TextArgs,
       sendOk \in BOOLEAN :
        set_welcome_command(c, lookup, args, sendOk)

SetRulesCommand ==
    \E c \in Chats, lookup \in MemberLookups, args \in TextArgs,
       sendOk \in BOOLEAN :
        set_rules_command(c, lookup, args, sendOk)

AddBadwordCommand ==
    \E c \in Chats, lookup \in MemberLookups, args \in WordArgs,
       sendOk \in BOOLEAN :
        add_badword_command(c, lookup, args, sendOk)

RemoveBadwordCommand ==
    \E c \in Chats, lookup \in MemberLookups, args \in WordArgs,
       sendOk \in BOOLEAN :
        remove_badword_command(c, lookup, args, sendOk)

DispatchAdmin ==
    /\ steps < MaxAdminSteps
    /\ steps' = steps + 1

NextAdmin ==
    \/ DispatchAdmin /\ Tick
    \/ DispatchAdmin /\ BanCommand
    \/ DispatchAdmin /\ UnbanCommand
    \/ DispatchAdmin /\ MuteCommand
    \/ DispatchAdmin /\ UnmuteCommand
    \/ DispatchAdmin /\ WarnCommand
    \/ DispatchAdmin /\ UnwarnCommand
    \/ DispatchAdmin /\ ClearCommand
    \/ DispatchAdmin /\ PinCommand
    \/ DispatchAdmin /\ SlowmodeCommand
    \/ DispatchAdmin /\ SetWelcomeCommand
    \/ DispatchAdmin /\ SetRulesCommand
    \/ DispatchAdmin /\ AddBadwordCommand
    \/ DispatchAdmin /\ RemoveBadwordCommand

SpecAdmin == Init /\ [][NextAdmin]_vars

(***************************************************************************)
(* parse_time on its own: every string of at most MaxLen characters.       *)
(***************************************************************************)
ParseAlphabet == {"0", "1", "5", "s", "m", "H", "d", "x"}

ParseInputs == UNION {[1..k -> ParseAlphabet] : k \in 0..MaxLen}

InitParse ==
    /\ now = 0
    /\ chat_settings = [c \in Chats |-> NoRow]
    /\ warnings = {}
    /\ warn_seq = 0
    /\ muted_users = [k \in Keys |-> NoValue]
    /\ user_stats = [k \in Keys |-> NoRow]
    /\ flood_cache = [k \in Keys |-> NoRow]
    /\ banned = {}
    /\ restricted = [k \in Keys |-> NoRow]
    /\ last = NoResult
    /\ steps = 0
    /\ time_str \in ParseInputs
    /\ parsed = NoValue

ParseTime ==
    /\ last.op = "none"
    /\ parsed' = parse_time(time_str)
    /\ last' = Result("parse_time", 0, 0, "returned")
    /\ UNCHANGED <<now, steps, storeVars, flood_cache, platformVars, time_str>>

NextParse == ParseTime

SpecParse == InitParse /\ [][NextParse]_vars

(***************************************************************************)
(* Steps of the handlers, as predicates on a step, for the properties.     *)
(***************************************************************************)
Admins == {"administrator", "creator"}

\* an administrator's /warn in reply to a message of u
WarnStep(c, u) ==
    /\ last'.op = "warn" /\ last'.chat = c /\ last'.user = u
    /\ \E lookup \in Admins, banOk \in BOOLEAN : warn_command(c, lookup, u, banOk)

\* an administrator's /unwarn in reply to a message of u
UnwarnStep(c, u) ==
    /\ last'.op = "unwarn" /\ last'.chat = c /\ last'.user = u
    /\ \E lookup \in Admins : unwarn_command(c, lookup, u)

\* a text message of u handled by handle_messages
MessageStep(c, u) ==
    /\ last'.op = "message" /\ last'.chat = c /\ last'.user = u
    /\ \E text \in Texts, delOk \in BOOLEAN, restrictOk \in BOOLEAN,
          sendOk \in BOOLEAN, banOk \in BOOLEAN :
           handle_messages(c, u, text, delOk, restrictOk, sendOk, banOk)

\* /info about u
InfoStep(c, u) ==
    /\ last'.op = "info" /\ last'.chat = c /\ last'.user = u
    /\ info_command(c, u)

\* the stored mute of (c, u) expires strictly later than now
MuteRunning(c, u) ==
    IsSome(muted_users[<<c, u>>]) /\ Val(muted_users[<<c, u>>]) > now

(***************************************************************************)
(* C1.  With warn limit L (the chat's, or the default without a settings   *)
(* row), an administrator's /warn that brings a user's count to n < L      *)
(* leaves the count at n and does not ban; the /warn that brings it to L   *)
(* bans the user on the platform and leaves the count at 0, so that the    *)
(* count never reaches L + 1.  Stated for the runs in which the platform   *)
(* accepts the ban and the clock has advanced since the user's last        *)
(* warning.                                                                *)
(***************************************************************************)
C1_WarnLimitPolicy ==
    [][\A c \in Chats, u \in Users :
         LET n == get_warnings_count(warnings, c, u) + 1
             L == EffectiveWarnLimit(c)
         IN  ( /\ n <= L
               /\ \A r \in UserRows(warnings, c, u) : r.created_at < now
               /\ last'.op = "warn" /\ last'.chat = c /\ last'.user = u
               /\ \E lookup \in Admins : warn_command(c, lookup, u, TRUE) )
             => IF n < L
                THEN /\ get_warnings_count(warnings', c, u) = n
                     /\ (<<c, u>> \in banned') = (<<c, u>> \in banned)
                ELSE /\ <<c, u>> \in banned'
                     /\ get_warnings_count(warnings', c, u) = 0]_vars

(***************************************************************************)
(* C2.  The warn-limit policy applies to the warnings of the word filter:  *)
(* when a banned-word message brings the sender's count to warn_limit or   *)
(* more (the platform accepting every call), the sender is banned and all  *)
(* their warnings in the chat are cleared, so that a following /unwarn     *)
(* answers 0.                                                              *)
(***************************************************************************)
C2_WordFilterLimitPolicy ==
    [][\A c \in Chats, u \in Users :
         ( /\ last'.op = "message" /\ last'.path \in WordPaths
           /\ last'.count >= EffectiveWarnLimit(c)
           /\ \E text \in Texts : handle_messages(c, u, text, TRUE, TRUE, TRUE, TRUE) )
         => /\ <<c, u>> \in banned'
            /\ get_warnings_count(warnings', c, u) = 0]_vars

(***************************************************************************)
(* C3.  After every operation of the bot that bans a user in a chat (/ban, *)
(* the limit step of /warn, the limit step of the word filter) the user    *)
(* has no stored warning in that chat.                                     *)
(***************************************************************************)
C3_BanClearsWarnings ==
    [][\A c \in Chats, u \in Users :
         ( /\ last'.chat = c /\ last'.user = u
           /\ last'.path \in {"banned", "word_banned"}
           /\ BanCommand \/ WarnCommand \/ HandleMessage )
         => get_warnings_count(warnings', c, u) = 0]_vars

(***************************************************************************)
(* C4.  is_muted answers false without a record, true while the stored     *)
(* expiry is strictly later than now, and false at or after the expiry;    *)
(* the call at or after the expiry deletes the record, and a repeated call *)
(* answers false again.  (/info reports the answer; handle_messages        *)
(* discards a message exactly when the answer is true.)                    *)
(***************************************************************************)
C4_IsMuted ==
    [][\A c \in Chats, u \in Users :
         LET rec == muted_users[<<c, u>>]
         IN  /\ InfoStep(c, u) =>
                  /\ ~IsSome(rec) =>
                        ~last'.muted /\ muted_users' = muted_users
                  /\ (IsSome(rec) /\ Val(rec) > now) =>
                        last'.muted /\ muted_users' = muted_users
                  /\ (IsSome(rec) /\ Val(rec) <= now) =>
                        ~last'.muted /\ ~IsSome(muted_users'[<<c, u>>])
                  /\ (last.op = "info" /\ last.chat = c /\ last.user = u
                        /\ ~last.muted) => ~last'.muted
             /\ (last'.op = "message" /\ last'.chat = c /\ last'.user = u) =>
                  \/ (last'.path = "muted") <=> (IsSome(rec) /\ Val(rec) > now)
                  \/ ~MessageStep(c, u)]_vars

\* a lookup at the very second of the expiry answered false and removed the
\* record (the platform restriction still shows the mute that ended now)
C4_Witness ==
    \E k \in Keys :
        /\ last.op = "info" /\ <<last.chat, last.user>> = k /\ ~last.muted
        /\ ~IsSome(muted_users[k])
        /\ restricted[k] # NoRow
        /\ restricted[k].until_date = Some(now)

(***************************************************************************)
(* C5.  A text message of a sender for whom is_muted is true is only       *)
(* deleted (the deletion is requested, and done when the platform accepts  *)
(* it): the statistics, the flood window, the warnings, the mutes and the  *)
(* platform membership stay as they were, and no banned word is looked     *)
(* for.                                                                    *)
(***************************************************************************)
C5_MutedSenderDiscarded ==
    [][\A c \in Chats, u \in Users :
         ( /\ MuteRunning(c, u)
           /\ last'.op = "message" /\ last'.chat = c /\ last'.user = u )
         => \/ /\ user_stats' = user_stats
               /\ flood_cache' = flood_cache
               /\ warnings' = warnings /\ warn_seq' = warn_seq
               /\ muted_users' = muted_users
               /\ banned' = banned /\ restricted' = restricted
               /\ last'.path = "muted" /\ last'.word = <<>> /\ last'.count = 0
               /\ \/ last'.deleted
                  \/ ~\E text \in Texts, r \in BOOLEAN, s \in BOOLEAN, b \in BOOLEAN :
                        handle_messages(c, u, text, TRUE, r, s, b)
            \/ ~MessageStep(c, u)]_vars

\* a sender with earlier processed messages, muted in a chat that has banned
\* words, wrote a message: it was deleted and the handler went no further
C5_Witness ==
    /\ last.op = "message" /\ last.path = "muted" /\ last.deleted
    /\ MuteRunning(last.chat, last.user)
    /\ get_bad_words(chat_settings, last.chat) # <<>>
    /\ user_stats[<<last.chat, last.user>>] # NoRow

(***************************************************************************)
(* C6.  The flood threshold is strict.  In a chat with antiflood enabled,  *)
(* count N and window W, a processed message of a sender who is not muted  *)
(* triggers no flood action while it is at most the sender's N-th message, *)
(* and triggers the flood action when it is the sender's (N+1)-th message  *)
(* and all N + 1 were sent within W seconds.                               *)
(***************************************************************************)
C6_FloodThresholdStrict ==
    [][\A c \in Chats, u \in Users :
         LET k == <<c, u>>
             N == EffectiveCount(c)
             W == EffectiveSeconds(c)
         IN  (EffectiveEnabled(c) /\ ~MuteRunning(c, u) /\ MessageStep(c, u)) =>
               /\ messages_count(user_stats', c, u) <= N =>
                      last'.path \notin FloodPaths
               /\ ( /\ messages_count(user_stats', c, u) = N + 1
                    /\ now - user_stats'[k].first_seen <= W )
                  => last'.path \in FloodPaths]_vars

(***************************************************************************)
(* C7.  After a flood action on a message of (chat, user), whatever the    *)
(* platform answered to its calls, the next message of that user within    *)
(* the 300 seconds of the flood mute triggers no further flood action.     *)
(***************************************************************************)
C7_NoFloodRetrigger ==
    [][\A c \in Chats, u \in Users :
         ( /\ last.op = "message" /\ last.chat = c /\ last.user = u
           /\ last.path \in FloodPaths
           /\ now - user_stats[<<c, u>>].last_seen < FLOOD_MUTE_SECONDS
           /\ MessageStep(c, u) )
         => last'.path \notin FloodPaths]_vars

(***************************************************************************)
(* C8.  A message that the word filter flags (it contains, in any case, a  *)
(* word of the chat's list) increases the sender's warning count by        *)
(* exactly 1, however many banned words it contains and however often, and *)
(* the word reported is the first word of the list, in list order, that    *)
(* occurs in the text.                                                     *)
(***************************************************************************)
C8_ExactlyOneWarning ==
    [][\A c \in Chats, u \in Users :
         (last'.path \in WordPaths /\ MessageStep(c, u)) =>
            /\ get_warnings_count(warnings', c, u)
                 = get_warnings_count(warnings, c, u) + 1
            /\ \E text \in Texts, d \in BOOLEAN, r \in BOOLEAN, s \in BOOLEAN,
                  b \in BOOLEAN :
                 /\ handle_messages(c, u, text, d, r, s, b)
                 /\ LET bw == get_bad_words(chat_settings, c)
                        occurs(i) == Contains(Lower(text), Lower(bw[i]))
                    IN  \E i \in 1..Len(bw) :
                           /\ occurs(i)
                           /\ \A j \in 1..(i - 1) : ~occurs(j)
                           /\ last'.word = bw[i]]_vars

(***************************************************************************)
(* C9.  /unwarn on a user with at least one warning deletes exactly one    *)
(* row, the most recently created warning of that (chat, user), and        *)
(* answers the previous count minus 1; on a user without warnings it       *)
(* deletes nothing and answers 0.                                          *)
(***************************************************************************)
C9_RemoveWarning ==
    [][\A c \in Chats, u \in Users :
         UnwarnStep(c, u) =>
            LET rows == UserRows(warnings, c, u)
            IN  IF rows = {}
                THEN warnings' = warnings /\ last'.count = 0
                ELSE /\ \E r \in rows :
                          /\ \A s \in rows \ {r} : s.created_at < r.created_at
                          /\ warnings' = warnings \ {r}
                     /\ last'.count = Cardinality(rows) - 1]_vars

\* of two warnings of a user the later one was removed: the answer was 1 and
\* the row left is the first one
C9_Witness ==
    /\ last.op = "unwarn" /\ last.count = 1
    /\ warn_seq = 2
    /\ \E r \in UserRows(warnings, last.chat, last.user) :
          r.id = 1 /\ r.created_at < now

(***************************************************************************)
(* C10.  parse_time answers digits x multiplier (s = 1, m = 60, h = 3600,  *)
(* d = 86400, the unit in either case) for every string of the exact form  *)
(* <digits><unit>, and no value for every other string, the empty one      *)
(* included.                                                               *)
(***************************************************************************)
C10_ParseTimeExactForm ==
    last.op = "parse_time" =>
        LET n == Len(time_str)
            exact == /\ n >= 2
                     /\ \A i \in 1..(n - 1) : time_str[i] \in Digits
                     /\ time_str[n] \in {"s", "m", "h", "d", "S", "M", "H", "D"}
            multiplier == CASE time_str[n] \in {"s", "S"} -> 1
                            [] time_str[n] \in {"m", "M"} -> 60
                            [] time_str[n] \in {"h", "H"} -> 3600
                            [] time_str[n] \in {"d", "D"} -> 86400
        IN  parsed = IF exact
                     THEN Some(IntOf(SubSeq(time_str, 1, n - 1)) * multiplier)
                     ELSE NoValue

(***************************************************************************)
(* C11.  The store holds at most one mute record per (chat, user), and a   *)
(* new mute overwrites the old one: after add_mute(chat, user, d) at time  *)
(* t, by /mute or by the flood action, the one stored expiry is t + d,     *)
(* whatever expiry was stored before.                                      *)
(***************************************************************************)
MuteStep(c, u) ==
    /\ last'.op = "mute" /\ last'.chat = c /\ last'.user = u
    /\ \E lookup \in Admins, args \in MuteArgs, restrictOk \in BOOLEAN :
          mute_command(c, lookup, u, args, restrictOk)

C12_UnmuteRestoresDefaults ==
    [][\A c \in Chats, u \in Users :
         ( /\ last'.op = "unmute" /\ last'.path = "unmuted"
           /\ last'.chat = c /\ last'.user = u
           /\ \E lookup \in Admins : unmute_command(c, lookup, u, TRUE) )
         => /\ ~IsSome(muted_users'[<<c, u>>])
            /\ restricted'[<<c, u>>].permissions = create_default_permissions]_vars

(***************************************************************************)
(* C13.  An admin-only command (/ban, /unban, /mute, /unmute, /warn,       *)
(* /unwarn, /clear, /pin, /slowmode, /set_welcome, /set_rules,             *)
(* /add_badword, /remove_badword) sent by a user who is not an             *)
(* administrator or the creator of the chat, or whose status the platform  *)
(* lookup fails to give, changes no warning, mute, chat setting or         *)
(* platform membership and is answered with the refusal.                   *)
(***************************************************************************)
NonAdmins == MemberLookups \ Admins

\* one of the thirteen commands, sent in chat c by a user who is not known
\* to be an administrator
NonAdminCommand(c) ==
    \E lookup \in NonAdmins :
        \/ \E u \in ReplyTargets, ok \in BOOLEAN :
              \/ ban_command(c, lookup, u, ok)
              \/ unmute_command(c, lookup, u, ok)
              \/ warn_command(c, lookup, u, ok)
              \/ unwarn_command(c, lookup, u)
              \/ \E args \in MuteArgs : mute_command(c, lookup, u, args, ok)
        \/ \E target \in {"none", "username", "garbage", "id"}, u \in Users,
              ok \in BOOLEAN : unban_command(c, lookup, target, u, ok)
        \/ \E arg \in NumberArgs, replied \in BOOLEAN, ok \in BOOLEAN :
              \/ clear_command(c, lookup, arg, replied, ok)
              \/ pin_command(c, lookup, replied, ok)
              \/ slowmode_command(c, lookup, arg, ok)
        \/ \E args \in TextArgs, ok \in BOOLEAN :
              \/ set_welcome_command(c, lookup, args, ok)
              \/ set_rules_command(c, lookup, args, ok)
        \/ \E args \in WordArgs, ok \in BOOLEAN :
              \/ add_badword_command(c, lookup, args, ok)
              \/ remove_badword_command(c, lookup, args, ok)

C13_NonAdminRefused ==
    [][\A c \in Chats :
         NonAdminCommand(c) =>
            /\ last'.path = "refused"
            /\ chat_settings' = chat_settings
            /\ warnings' = warnings /\ warn_seq' = warn_seq
            /\ muted_users' = muted_users
            /\ banned' = banned /\ restricted' = restricted]_vars

\* a command was refused in a chat that has a settings row and a stored mute
C13_Witness ==
    /\ last.path = "refused"
    /\ chat_settings[last.chat] # NoRow
    /\ \E k \in Keys : k[1] = last.chat /\ IsSome(muted_users[k])

(***************************************************************************)
(* C14.  A platform call that the platform rejects is caught inside the    *)
(* handler that made it: no handler is left by the exception of a rejected *)
(* call.  Stated for the button handler, whose path "raised" is exactly    *)
(* that case.                                                              *)
(***************************************************************************)
C14_PlatformFailuresCaught ==
    last.op = "button" => last.path # "raised"

(***************************************************************************)
(* C15.  get_chat_settings on a chat without a settings row creates the    *)
(* row with the defaults (warn limit 3, antiflood enabled with count 5 and *)
(* window 10 seconds, no banned word, the default welcome and rules        *)
(* texts); a row that exists is never deleted.  handle_messages reads the  *)
(* settings for every message of a sender who is not muted.                *)
(***************************************************************************)
DefaultRow ==
    [warn_limit |-> DEFAULT_WARN_LIMIT, antiflood_enabled |-> TRUE,
     antiflood_count |-> DEFAULT_ANTIFLOOD_COUNT,
     antiflood_seconds |-> DEFAULT_ANTIFLOOD_SECONDS, bad_words |-> <<>>,
     welcome_message |-> "DEFAULT_WELCOME_MESSAGE", rules |-> "DEFAULT_RULES"]

C15_SettingsCreatedLazily ==
    [][\A c \in Chats :
         /\ chat_settings[c] # NoRow => chat_settings'[c] # NoRow
         /\ \A u \in Users :
              ( /\ chat_settings[c] = NoRow
                /\ ~MuteRunning(c, u)
                /\ MessageStep(c, u) )
              => chat_settings'[c] = DefaultRow]_vars

(***************************************************************************)
(* C16.  For every (chat, user) with a user_stats row first_seen is at     *)
(* most last_seen; a row is never removed, its first_seen never changes    *)
(* and its messages_count never decreases; every text message of a sender  *)
(* who is not muted raises messages_count by exactly 1 and sets last_seen  *)
(* to the time of the message (and first_seen too when it creates the      *)
(* row).  The clock of the model never runs backwards.                     *)
(***************************************************************************)
C16_UserStats ==
    [][\A c \in Chats, u \in Users :
         LET k == <<c, u>>
             old == user_stats[k]
             new == user_stats'[k] IN
           /\ new # NoRow => new.first_seen <= new.last_seen
           /\ old # NoRow =>
                /\ new # NoRow
                /\ new.first_seen = old.first_seen
                /\ new.messages_count >= old.messages_count
           /\ ( /\ last'.op = "message" /\ last'.chat = c /\ last'.user = u
                /\ ~MuteRunning(c, u) )
              => \/ /\ new # NoRow
                    /\ new.messages_count = messages_count(user_stats, c, u) + 1
                    /\ new.last_seen = now
                    /\ old = NoRow => new.first_seen = now
                 \/ ~MessageStep(c, u)]_vars

\* a second processed message, later than the first one
C16_Witness ==
    /\ last.op = "message"
    /\ LET k == <<last.chat, last.user>> IN
         /\ user_stats[k] # NoRow
         /\ user_stats[k].messages_count >= 2
         /\ user_stats[k].first_seen < user_stats[k].last_seen
         /\ user_stats[k].last_seen = now
         /\ ~IsSome(muted_users[k])

(***************************************************************************)
(* C17.  A moderation command whose platform call is rejected leaves the   *)
(* store as it was before the command: a rejected restrict in /mute adds   *)
(* no mute record, a rejected restrict in /unmute keeps the mute record,   *)
(* and a rejected ban in the limit step of /warn leaves the warning count  *)
(* of the user as it was before the /warn.                                 *)
(***************************************************************************)
C17_RejectedCallLeavesStore ==
    [][\A c \in Chats, u \in Users :
         LET k == <<c, u>>
             rejected(op, path) ==
                 last'.op = op /\ last'.path = path
                 /\ last'.chat = c /\ last'.user = u IN
           /\ rejected("mute", "error") =>
                \/ muted_users'[k] = muted_users[k]
                \/ ~\E lookup \in Admins, args \in MuteArgs :
                        mute_command(c, lookup, u, args, FALSE)
           /\ rejected("unmute", "error") =>
                \/ muted_users'[k] = muted_users[k]
                \/ ~\E lookup \in Admins : unmute_command(c, lookup, u, FALSE)
           /\ rejected("warn", "ban_error") =>
                \/ get_warnings_count(warnings', c, u)
                      = get_warnings_count(warnings, c, u)
                \/ ~\E lookup \in Admins : warn_command(c, lookup, u, FALSE)]_vars

(***************************************************************************)
(* C18.  add_warning always inserts exactly one row and returns the        *)
(* previous count of the (chat, user) plus 1, also when the user already   *)
(* has a warning created at the same timestamp: every /warn of an          *)
(* administrator in reply to a message of u gets past add_warning with     *)
(* the count of u raised by one.                                           *)
(***************************************************************************)
C18_AddWarningAlwaysInserts ==
    [][\A c \in Chats, u \in Users :
         (last'.op = "warn" /\ last'.chat = c /\ last'.user = u) =>
            \/ /\ last'.path # "integrity_error"
               /\ warn_seq' = warn_seq + 1
               /\ last'.count = get_warnings_count(warnings, c, u) + 1
            \/ ~WarnStep(c, u)]_vars

\* u presses an inline button in chat c
ButtonStep(c, u) ==
    /\ last'.op = "button" /\ last'.chat = c /\ last'.user = u
    /\ \E data \in ButtonData, answerOk \in BOOLEAN, editOk \in BOOLEAN,
          restrictOk \in BOOLEAN :
           button_callback(c, u, data, answerOk, editOk, restrictOk)

(***************************************************************************)
(* C19.  A stored mute ends only by expiry or by an administrator's        *)
(* /unmute: while the mute of u in chat c is running, neither a message    *)
(* sent by u nor an inline button pressed by u (accept rules, solve        *)
(* captcha, a menu button) removes the mute record of u or changes the     *)
(* restriction of u on the platform.  Stated for the chats that have a     *)
(* settings row, where /rules and the rules menu show the accept button.   *)
(***************************************************************************)
C19_MutedUserCannotUnmute ==
    [][\A c \in Chats, u \in Users :
         ( /\ chat_settings[c] # NoRow
           /\ MuteRunning(c, u)
           /\ last'.op \in {"message", "button"}
           /\ last'.chat = c /\ last'.user = u )
         => \/ /\ muted_users'[<<c, u>>] = muted_users[<<c, u>>]
               /\ restricted'[<<c, u>>] = restricted[<<c, u>>]
            \/ ~(MessageStep(c, u) \/ ButtonStep(c, u))]_vars

(***************************************************************************)
(* C20.  An administrator's /mute whose duration token parses to d seconds *)
(* records a mute that expires d seconds after the command, for every      *)
(* parseable d, 0 included; with no token, or a token that does not        *)
(* parse, it records a mute of 3600 seconds.                               *)
(***************************************************************************)
C20_MuteDuration ==
    [][\A c \in Chats, u \in Users :
         (last'.op = "mute" /\ last'.path = "muted"
            /\ last'.chat = c /\ last'.user = u) =>
           \A lookup \in Admins, args \in MuteArgs :
              LET token == IF Len(args) > 0 THEN parse_time(args[1]) ELSE NoValue
                  d == IF IsSome(token) THEN Val(token) ELSE DEFAULT_MUTE_SECONDS
              IN  mute_command(c, lookup, u, args, TRUE)
                  => muted_users'[<<c, u>>] = Some(now + d)]_vars

(***************************************************************************)
(* C21.  Mute state and warning state are independent.  /mute, /unmute,    *)
(* the flood mute and the discarding of a muted sender's message change no *)
(* warning row; /warn and /unwarn change no mute record; a message that    *)
(* the word filter answers changes no mute record either, except that the  *)
(* is_muted lookup at the head of the handler drops the sender's record    *)
(* when it has expired.                                                    *)
(***************************************************************************)
C21_MuteWarnIndependent ==
    [][/\ last'.op \in {"mute", "unmute"} => warnings' = warnings
       /\ (last'.op = "message" /\ last'.path \in FloodPaths \cup {"muted"})
            => warnings' = warnings
       /\ last'.op \in {"warn", "unwarn"} => muted_users' = muted_users
       /\ (last'.op = "message" /\ last'.path \in WordPaths) =>
            \A k \in Keys :
               \/ muted_users'[k] = muted_users[k]
               \/ /\ k = <<last'.chat, last'.user>>
                  /\ IsSome(muted_users[k]) /\ Val(muted_users[k]) <= now
                  /\ ~IsSome(muted_users'[k])]_vars

\* an /unmute of a user who has a warning: the record is gone, the warning
\* is kept
C21_Witness ==
    /\ last.op = "unmute" /\ last.path = "unmuted"
    /\ ~IsSome(muted_users[<<last.chat, last.user>>])
    /\ get_warnings_count(warnings, last.chat, last.user) >= 1

(***************************************************************************)
(* C22.  A ban is terminal until an explicit unban: a user the bot has     *)
(* banned in a chat (by /ban, at the /warn limit or by the word filter)    *)
(* stays banned through every later event (mute, unmute, mute expiry,      *)
(* warn, unwarn, messages, button presses) except an administrator's       *)
(* /unban of that user which the platform accepts.  The ban list is the    *)
(* platform's and changes by ban_member and unban_member only.             *)
(***************************************************************************)
C22_BanTerminal ==
    [][\A k \in Keys :
         k \in banned =>
            \/ k \in banned'
            \/ /\ last'.op = "unban" /\ last'.path = "unbanned"
               /\ <<last'.chat, last'.user>> = k
               /\ \E lookup \in Admins :
                     unban_command(k[1], lookup, "id", k[2], TRUE)]_vars

\* a banned user is muted or unmuted, or presses a button, and is still
\* banned
C22_Witness ==
    /\ last.op \in {"mute", "unmute", "button"}
    /\ last.path \in {"muted", "unmuted", "mute_lifted"}
    /\ <<last.chat, last.user>> \in banned

(***************************************************************************)
(* C23.  A join event is handled to its end for every new member: a bot is *)
(* skipped, a member whose account is younger than 7 days gets a pending   *)
(* challenge of their own and is restricted, any other member gets the     *)
(* welcome message.  So the handler never leaves a join event by an        *)
(* exception, and a join that brought a member who is not a bot has        *)
(* welcomed or challenged that member.                                     *)
(***************************************************************************)
C23_JoinChallenge ==
    [][\A c \in Chats :
         (last'.op = "join" /\ last'.chat = c) =>
            \/ last'.path \notin {"name_error", "raised"}
            \/ ~\E members \in SUBSET MemberKinds :
                  "user" \in members /\ handle_new_members(c, members)]_vars

(***************************************************************************)
(* C24.  In a chat whose antiflood_enabled flag is false the flood check   *)
(* is skipped: a message, however soon after the previous one, changes no  *)
(* flood window, is never answered by the flood action (no deletion for    *)
(* flood, no flood mute, no restriction), and the banned-word filter runs  *)
(* on it when its sender is not muted: it is answered by the word filter   *)
(* exactly when its text contains a banned word of the chat.               *)
(***************************************************************************)
C24_AntifloodDisabled ==
    [][\A c \in Chats, u \in Users :
         LET k == <<c, u>> IN
         ( /\ chat_settings[c] # NoRow
           /\ ~chat_settings[c].antiflood_enabled
           /\ last'.op = "message" /\ last'.chat = c /\ last'.user = u )
         => /\ flood_cache' = flood_cache
            /\ last'.path \notin FloodPaths
            /\ restricted' = restricted
            /\ ~IsSome(muted_users'[k]) \/ muted_users'[k] = muted_users[k]
            /\ ~MuteRunning(c, u) =>
                 \A text \in Texts :
                    \/ ( last'.path \in WordPaths
                          <=> \E i \in 1..Len(chat_settings[c].bad_words) :
                                 Contains(Lower(text),
                                          Lower(chat_settings[c].bad_words[i])) )
                    \/ ~\E delOk \in BOOLEAN, restrictOk \in BOOLEAN,
                           sendOk \in BOOLEAN, banOk \in BOOLEAN :
                           handle_messages(c, u, text, delOk, restrictOk,
                                           sendOk, banOk)]_vars

\* with the check disabled, a second message at the same instant as the
\* first (more than the chat's antiflood_count of 1) reaches the word filter
C24_Witness ==
    /\ last.op = "message" /\ last.path \in WordPaths
    /\ chat_settings[last.chat] # NoRow
    /\ ~chat_settings[last.chat].antiflood_enabled
    /\ LET k == <<last.chat, last.user>> IN
         /\ user_stats[k] # NoRow
         /\ user_stats[k].messages_count >= 2
         /\ user_stats[k].first_seen = now
         /\ flood_cache[k] = NoRow
         /\ ~IsSome(muted_users[k])

(***************************************************************************)
(* C25.  After a message of a sender who is not muted, in a chat with      *)
(* antiflood enabled, the flood window of the (chat, user) is ordered in   *)
(* time, ends with the time of the message, holds only timestamps t with   *)
(* now - t <= antiflood_seconds, and holds every timestamp of the window   *)
(* before the message that is still within antiflood_seconds: no message   *)
(* of the trailing window is missing, whatever the window length.          *)
(***************************************************************************)
C25_FloodWindowExact ==
    [][\A c \in Chats, u \in Users :
         LET k == <<c, u>> IN
         ( /\ chat_settings[c] # NoRow
           /\ chat_settings[c].antiflood_enabled
           /\ ~MuteRunning(c, u)
           /\ last'.op = "message" /\ last'.chat = c /\ last'.user = u )
         => \/ /\ flood_cache'[k] # NoRow
               /\ LET seconds == chat_settings[c].antiflood_seconds
                      before == IF flood_cache[k] = NoRow THEN <<>>
                                ELSE flood_cache[k].ts
                      after == flood_cache'[k].ts
                  IN  /\ Len(after) >= 1
                      /\ after[Len(after)] = now
                      /\ \A i \in 1..Len(after) : now - after[i] <= seconds
                      /\ \A i, j \in 1..Len(after) :
                            i < j => after[i] <= after[j]
                      /\ \A i \in 1..Len(before) :
                            now - before[i] <= seconds
                            => \E j \in 1..Len(after) : after[j] = before[i]
            \/ ~MessageStep(c, u)]_vars

(***************************************************************************)
(* C26.  Mutes are never permanent.  A mute record stays in the store      *)
(* while only time passes; once its expiry has passed, the next message of *)
(* the user is not discarded: the is_muted lookup removes the record (a    *)
(* flood mute by this very message may store a new one) and the message    *)
(* goes through the whole pipeline, statistics, flood check and word       *)
(* filter.                                                                 *)
(***************************************************************************)
C26_MuteExpires ==
    [][\A c \in Chats, u \in Users :
         LET k == <<c, u>> IN
           /\ now' # now => muted_users'[k] = muted_users[k]
           /\ ( /\ IsSome(muted_users[k]) /\ Val(muted_users[k]) <= now
                /\ last'.op = "message" /\ last'.chat = c /\ last'.user = u )
              => \/ /\ last'.path \notin {"muted", "name_error"}
                    /\ \/ ~IsSome(muted_users'[k])
                       \/ last'.path \in {"flood_muted", "flood_notice_failed"}
                    /\ messages_count(user_stats', c, u)
                          = messages_count(user_stats, c, u) + 1
                 \/ ~MessageStep(c, u)]_vars

(***************************************************************************)
(* C27.  A settings change an administrator makes takes effect in every    *)
(* chat, also in a chat that has no settings row yet: after an             *)
(* /add_badword w that reports success the stored banned-word list of the  *)
(* chat contains w (so the word filter flags later messages containing     *)
(* it), and after a /set_welcome or /set_rules that reports success the    *)
(* stored text is the new one.                                             *)
(***************************************************************************)
C27_SettingsChangeTakesEffect ==
    [][\A c \in Chats :
         /\ ( last'.op = "add_badword" /\ last'.path = "added"
              /\ last'.chat = c )
            => \/ InList(last'.word, get_bad_words(chat_settings', c))
               \/ ~\E lookup \in Admins, args \in WordArgs :
                      add_badword_command(c, lookup, args, TRUE)
         /\ ( last'.op = "set_welcome" /\ last'.path = "updated"
              /\ last'.chat = c )
            => \A lookup \in Admins, args \in TextArgs :
                  set_welcome_command(c, lookup, args, TRUE)
                  => /\ chat_settings'[c] # NoRow
                     /\ chat_settings'[c].welcome_message = args[1]
         /\ ( last'.op = "set_rules" /\ last'.path = "updated"
              /\ last'.chat = c )
            => \A lookup \in Admins, args \in TextArgs :
                  set_rules_command(c, lookup, args, TRUE)
                  => /\ chat_settings'[c] # NoRow
                     /\ chat_settings'[c].rules = args[1]]_vars

(***************************************************************************)
(* C28.  Within one message the flood action comes before the word         *)
(* filter.  A message of a sender who is not muted, in a chat with         *)
(* antiflood enabled, that brings the flood window above antiflood_count   *)
(* is answered by the flood action only: whatever its text, it adds no     *)
(* warning and bans nobody, and the statistics of the sender already count *)
(* it.                                                                     *)
(***************************************************************************)
C28_FloodBeforeWordFilter ==
    [][\A c \in Chats, u \in Users :
         LET k == <<c, u>> IN
         ( /\ chat_settings[c] # NoRow
           /\ chat_settings[c].antiflood_enabled
           /\ ~MuteRunning(c, u)
           /\ last'.op = "message" /\ last'.chat = c /\ last'.user = u
           /\ flood_cache'[k] # NoRow
           /\ Len(flood_cache'[k].ts) > chat_settings[c].antiflood_count )
         => \/ /\ last'.path \in FloodPaths
               /\ warnings' = warnings
               /\ warn_seq' = warn_seq
               /\ banned' = banned
               /\ user_stats'[k] # NoRow
               /\ user_stats'[k].messages_count
                     = messages_count(user_stats, c, u) + 1
               /\ user_stats'[k].last_seen = now
            \/ ~MessageStep(c, u)]_vars

\* a flood action in a chat that has banned words: no warning was added
C28_Witness ==
    /\ last.op = "message" /\ last.path \in FloodPaths
    /\ chat_settings[last.chat] # NoRow
    /\ Len(chat_settings[last.chat].bad_words) > 0
    /\ LET k == <<last.chat, last.user>> IN
         /\ flood_cache[k] # NoRow
         /\ Len(flood_cache[k].ts) > chat_settings[last.chat].antiflood_count
         /\ user_stats[k] # NoRow
         /\ user_stats[k].messages_count = Len(flood_cache[k].ts)
         /\ user_stats[k].last_seen = now
         /\ get_warnings_count(warnings, last.chat, last.user) = 0
         /\ k \notin banned

=============================================================================
